---- MODULE Spec2Model ----
(***************************************************************************)
(* Traffic obfuscation and frequency hopping of the metadata-resistant     *)
(* network: core/obfuscation.py (TrafficObfuscator, TimingObfuscator),     *)
(* the client's send path (client/client.py), the server's resource and    *)
(* hop task (server/server.py) and the settings (config/settings.py).      *)
(*                                                                         *)
(* Byte strings are sequences of byte values.  Class instances are         *)
(* records holding the instance's fields.  Every random draw of the code   *)
(* (random.random, random.randint, random.uniform, os.urandom) is an       *)
(* existentially chosen input of the action that makes the draw.           *)
(***************************************************************************)
EXTENDS Integers, Sequences, FiniteSets, TLC

VARIABLES
    now,         \* time.time(), in clock ticks
    obfuscator,  \* a TrafficObfuscator instance (unit level)
    call,        \* observation of the last call made on the unit-level instance
    server,      \* the server process: obfuscator, listening context, resource tree
    client,      \* the PrivacyEnhancedClient instance
    network,     \* the request or response in flight between client and server
    posted,      \* the entries the server's application logic has stored so far
    reply,       \* observation of the last send_request that returned
    timing,      \* a TimingObfuscator instance (unit level)
    loaded,      \* the Settings of the process, as read from the environment
    handlers     \* the request handlers running on one shared TimingObfuscator

vars == <<now, obfuscator, call, server, client, network, posted, reply,
          timing, loaded, handlers>>

-----------------------------------------------------------------------------
(* Bounds of the model *)

\* longest plain message b"A"*n fed to the transforms
MaxLen == 9
\* number of normalize_message_size calls explored on one instance
MaxCalls == 3
\* largest clock value explored
MaxTime == 3
\* largest hop interval bound explored (hop_min <= hop_max <= MaxHop)
MaxHop == 2
\* number of send_request calls the client makes
MaxSends == 1

-----------------------------------------------------------------------------
(* Byte strings *)

\* b"||PADDING||"
PADDING_DELIM == <<124, 124, 80, 65, 68, 68, 73, 78, 71, 124, 124>>
\* b"||SIZE||"
SIZE_DELIM == <<124, 124, 83, 73, 90, 69, 124, 124>>
\* b"||DUMMY||"
DUMMY_MARKER == <<124, 124, 68, 85, 77, 77, 89, 124, 124>>
\* b"X", the filler byte of size normalisation
FILLER == <<88>>

\* bytes * n  (n <= 0 gives the empty byte string, as in Python)
Repeat(bytes, n) ==
    IF n <= 0 THEN <<>>
    ELSE [i \in 1..(n * Len(bytes)) |-> bytes[((i - 1) % Len(bytes)) + 1]]

\* the positions at which delim occurs in message
Occurrences(message, delim) ==
    {i \in 1..(Len(message) - Len(delim) + 1) :
        SubSeq(message, i, i + Len(delim) - 1) = delim}

\* delim in message
Contains(message, delim) == Occurrences(message, delim) # {}

\* message.split(delim, 1)[0], for a message that contains delim
SplitFirst(message, delim) ==
    LET first == CHOOSE i \in Occurrences(message, delim) :
                     \A j \in Occurrences(message, delim) : i <= j
    IN  SubSeq(message, 1, first - 1)

\* message.startswith(prefix)
StartsWith(message, prefix) ==
    /\ Len(message) >= Len(prefix)
    /\ SubSeq(message, 1, Len(prefix)) = prefix

\* max(a, b) and min(a, b)
Max(a, b) == IF a >= b THEN a ELSE b
Min(a, b) == IF a <= b THEN a ELSE b

-----------------------------------------------------------------------------
(* Random draws *)

\* random.random(), in hundredths: a value of [0, 1); the two extremes are explored
RandomDraws == {0, 99}

\* truncate or extend prefix with b"z" to exactly n bytes
Fill(prefix, n) ==
    IF Len(prefix) >= n THEN SubSeq(prefix, 1, n)
    ELSE prefix \o Repeat(<<122>>, n - Len(prefix))

\* the beginnings explored for a block of random bytes
BlockPrefixes ==
    { <<>>, <<124>>, <<0, 255>>,
      SubSeq(PADDING_DELIM, 3, 11),      \* b"PADDING||"
      SubSeq(PADDING_DELIM, 2, 11),      \* b"|PADDING||"
      SubSeq(SIZE_DELIM, 3, 8),          \* b"SIZE||"
      PADDING_DELIM, SIZE_DELIM, DUMMY_MARKER }

\* os.urandom(n): the blocks of n random bytes that are explored
Urandom(n) == {Fill(p, n) : p \in BlockPrefixes}

-----------------------------------------------------------------------------
(* class TrafficObfuscator *)

\* capacity of the size history, deque(maxlen=100)
HISTORY_MAXLEN == 100

\* TrafficObfuscator.__init__ at time t; probabilities are in hundredths
TrafficObfuscator(min_delay, max_delay, padding_probability, padding_size_range, frequency_hop_interval, t) ==
    [ min_delay           |-> min_delay,
      max_delay           |-> max_delay,
      padding_probability |-> padding_probability,
      padding_min         |-> padding_size_range[1],
      padding_max         |-> padding_size_range[2],
      hop_min             |-> frequency_hop_interval[1],
      hop_max             |-> frequency_hop_interval[2],
      message_history     |-> <<>>,
      last_hop_time       |-> t,
      current_port_offset |-> 0 ]

\* add_padding that appends the delimiter without the random block
add_padding_without_block(self, message, draw, padding) ==
    IF draw < self.padding_probability
    THEN message \o PADDING_DELIM
    ELSE message

\* add_padding: draw is random.random(), padding is os.urandom(padding_size)
add_padding(self, message, draw, padding) ==
    IF draw < self.padding_probability
    THEN message \o PADDING_DELIM \o padding
    ELSE message

\* remove_padding
remove_padding(message) ==
    IF Contains(message, PADDING_DELIM)
    THEN SplitFirst(message, PADDING_DELIM)
    ELSE message

\* denormalize_message_size
denormalize_message_size(message) ==
    IF Contains(message, SIZE_DELIM)
    THEN SplitFirst(message, SIZE_DELIM)
    ELSE message

\* random.uniform(a, b) on the tick grid: a value between the two ends
Uniform(a, b) == Min(a, b)..Max(a, b)

\* random.randint(1, 10), the port offsets a hop draws from
HopOffsets == 1..10

\* get_next_frequency_hop hopping already when the elapsed time equals the threshold
get_next_frequency_hop_at_threshold(self, current_time, threshold, offset) ==
    IF current_time - self.last_hop_time >= threshold
    THEN [ self  |-> [self EXCEPT !.last_hop_time = current_time,
                                  !.current_port_offset = offset],
           none  |-> FALSE,
           value |-> offset ]
    ELSE [ self |-> self, none |-> TRUE, value |-> 0 ]

\* get_next_frequency_hop that does not reset last_hop_time
get_next_frequency_hop_no_reset(self, current_time, threshold, offset) ==
    IF current_time - self.last_hop_time > threshold
    THEN [ self  |-> [self EXCEPT !.current_port_offset = offset],
           none  |-> FALSE,
           value |-> offset ]
    ELSE [ self |-> self, none |-> TRUE, value |-> 0 ]

\* get_next_frequency_hop with the offset of random.randint(0, 9)
get_next_frequency_hop_zero_based(self, current_time, threshold, offset) ==
    IF current_time - self.last_hop_time > threshold
    THEN [ self  |-> [self EXCEPT !.last_hop_time = current_time,
                                  !.current_port_offset = offset - 1],
           none  |-> FALSE,
           value |-> offset - 1 ]
    ELSE [ self |-> self, none |-> TRUE, value |-> 0 ]

\* get_next_frequency_hop that records the time of every call
get_next_frequency_hop_touching(self, current_time, threshold, offset) ==
    IF current_time - self.last_hop_time > threshold
    THEN [ self  |-> [self EXCEPT !.last_hop_time = current_time,
                                  !.current_port_offset = offset],
           none  |-> FALSE,
           value |-> offset ]
    ELSE [ self  |-> [self EXCEPT !.last_hop_time = current_time],
           none  |-> TRUE,
           value |-> 0 ]

\* get_next_frequency_hop at time current_time: threshold is
\* random.uniform(hop_min, hop_max), offset is random.randint(1, 10).
\* The instance after the call and the value returned (none: None).
get_next_frequency_hop(self, current_time, threshold, offset) ==
    IF current_time - self.last_hop_time > threshold
    THEN [ self  |-> [self EXCEPT !.last_hop_time = current_time,
                                  !.current_port_offset = offset],
           none  |-> FALSE,
           value |-> offset ]
    ELSE [ self |-> self, none |-> TRUE, value |-> 0 ]

RECURSIVE Sum(_)
\* sum(history)
Sum(history) == IF history = <<>> THEN 0 ELSE Head(history) + Sum(Tail(history))

RECURSIVE Pow2(_)
\* 2 ** k for k >= 0
Pow2(k) == IF k <= 0 THEN 1 ELSE 2 * Pow2(k - 1)

RECURSIVE CeilLog2Up(_, _, _)
\* least k >= from with 2**k >= num/den   (num/den >= 1)
CeilLog2Up(num, den, from) ==
    IF Pow2(from) * den >= num THEN from ELSE CeilLog2Up(num, den, from + 1)

RECURSIVE CeilLog2Down(_, _, _)
\* least k <= from with 2**k >= num/den   (0 < num/den <= 2**from, from <= 0)
CeilLog2Down(num, den, from) ==
    IF den >= num * Pow2(1 - from) THEN CeilLog2Down(num, den, from - 1) ELSE from

\* math.ceil(math.log2(num/den)) for num/den > 0, in exact arithmetic
CeilLog2(num, den) ==
    IF num >= den THEN CeilLog2Up(num, den, 0) ELSE CeilLog2Down(num, den, 0)

\* 2 ** k as a fraction <<numerator, denominator>>: an int for k >= 0, a float
\* below 1 for k < 0
TwoToThe(k) == IF k >= 0 THEN <<Pow2(k), 1>> ELSE <<1, Pow2(0 - k)>>

\* the value recorded as target_size when the call computes none
NoTarget == <<0, 0>>

\* deque.append without maxlen
DequeAppendUnbounded(history, x) == Append(history, x)

\* deque.append with maxlen: the oldest entry is evicted when the deque is full
DequeAppend(history, x) ==
    IF Len(history) >= HISTORY_MAXLEN THEN Tail(history) \o <<x>>
    ELSE Append(history, x)

\* normalize_message_size that cuts a longer message down to the target
normalize_message_size_truncating(self, message) ==
    LET history  == self.message_history
        appended == [self EXCEPT !.message_history = DequeAppend(history, Len(message))]
    IN  IF history = <<>>
        THEN [self |-> appended, result |-> message, raised |-> "none",
              target_size |-> NoTarget]
        ELSE IF Sum(history) = 0
        THEN [self |-> appended, result |-> <<>>, raised |-> "ValueError",
              target_size |-> NoTarget]
        ELSE LET target_size == TwoToThe(CeilLog2(Sum(history), Len(history)))
             IN  IF Len(message) * target_size[2] < target_size[1]
                 THEN IF target_size[2] # 1
                      THEN [self |-> appended, result |-> <<>>,
                            raised |-> "TypeError", target_size |-> target_size]
                      ELSE [self |-> appended,
                            result |-> message \o SIZE_DELIM
                                       \o Repeat(FILLER, target_size[1] - Len(message)),
                            raised |-> "none", target_size |-> target_size]
                 ELSE [self |-> appended,
                       result |-> SubSeq(message, 1, target_size[1] \div target_size[2]),
                       raised |-> "none", target_size |-> target_size]

\* normalize_message_size: the instance after the call, the value returned, the
\* exception raised ("none" when the call returns) and the local target_size
normalize_message_size(self, message) ==
    LET history  == self.message_history
        appended == [self EXCEPT !.message_history = DequeAppend(history, Len(message))]
    IN  IF history = <<>>
        THEN [self |-> appended, result |-> message, raised |-> "none",
              target_size |-> NoTarget]
        ELSE IF Sum(history) = 0
        THEN \* math.log2(0.0)
             [self |-> appended, result |-> <<>>, raised |-> "ValueError",
              target_size |-> NoTarget]
        ELSE LET target_size == TwoToThe(CeilLog2(Sum(history), Len(history)))
             IN  IF Len(message) * target_size[2] < target_size[1]
                 THEN IF target_size[2] # 1
                      THEN \* b"X" * (a float)
                           [self |-> appended, result |-> <<>>,
                            raised |-> "TypeError", target_size |-> target_size]
                      ELSE [self |-> appended,
                            result |-> message \o SIZE_DELIM
                                       \o Repeat(FILLER, target_size[1] - Len(message)),
                            raised |-> "none", target_size |-> target_size]
                 ELSE [self |-> appended, result |-> message, raised |-> "none",
                       target_size |-> target_size]

-----------------------------------------------------------------------------
(* class TimingObfuscator *)

\* TimingObfuscator.__init__; fixed_interval 0 stands for None and for 0 alike
TimingObfuscator(fixed_interval, jitter_range, dummy_msg_probability) ==
    [ fixed_interval        |-> fixed_interval,
      min_jitter            |-> jitter_range[1],
      max_jitter            |-> jitter_range[2],
      dummy_msg_probability |-> dummy_msg_probability,
      last_send_time        |-> 0 ]

\* should_send_dummy: draw is random.random()
should_send_dummy(self, draw) == draw < self.dummy_msg_probability

\* the payload length without the upper clamp
dummy_size_unbounded(avg_size, gauss) == Max(20, gauss)

\* the payload length create_dummy_message settles on: gauss is
\* int(random.gauss(avg_size, avg_size/3))
dummy_size(avg_size, gauss) == Max(20, Min(gauss, avg_size * 2))

\* create_dummy_message that leaves the marker out
create_dummy_message_unmarked(payload) == payload

\* create_dummy_message: payload is os.urandom(size)
create_dummy_message(payload) == DUMMY_MARKER \o payload

\* is_dummy_message
is_dummy_message(message) == StartsWith(message, DUMMY_MARKER)

\* remove_dummy_marker: None for a dummy, the message otherwise
remove_dummy_marker(message) ==
    IF is_dummy_message(message)
    THEN [none |-> TRUE, bytes |-> <<>>]
    ELSE [none |-> FALSE, bytes |-> message]

\* wait_for_next_interval without the "if not self.fixed_interval" return
wait_for_next_interval_unconditional(self, t, jitter) ==
    IF self.last_send_time = 0 \/ t - self.last_send_time >= self.fixed_interval
    THEN [ self |-> [self EXCEPT !.last_send_time = t], wait |-> 0 ]
    ELSE LET wait_time == Max(0, self.fixed_interval - (t - self.last_send_time) + jitter)
         IN  IF wait_time > 0
             THEN [ self |-> self, wait |-> wait_time ]
             ELSE [ self |-> [self EXCEPT !.last_send_time = t], wait |-> 0 ]

\* wait_for_next_interval sending at once only when more than the interval elapsed
wait_for_next_interval_strict(self, t, jitter) ==
    IF self.fixed_interval = 0
    THEN [ self |-> self, wait |-> 0 ]
    ELSE IF self.last_send_time = 0 \/ t - self.last_send_time > self.fixed_interval
    THEN [ self |-> [self EXCEPT !.last_send_time = t], wait |-> 0 ]
    ELSE LET wait_time == Max(0, self.fixed_interval - (t - self.last_send_time) + jitter)
         IN  IF wait_time > 0
             THEN [ self |-> self, wait |-> wait_time ]
             ELSE [ self |-> [self EXCEPT !.last_send_time = t], wait |-> 0 ]

\* wait_for_next_interval that subtracts the jitter
wait_for_next_interval_jitter_subtracted(self, t, jitter) ==
    IF self.fixed_interval = 0
    THEN [ self |-> self, wait |-> 0 ]
    ELSE IF self.last_send_time = 0 \/ t - self.last_send_time >= self.fixed_interval
    THEN [ self |-> [self EXCEPT !.last_send_time = t], wait |-> 0 ]
    ELSE LET wait_time == Max(0, self.fixed_interval - (t - self.last_send_time) - jitter)
         IN  IF wait_time > 0
             THEN [ self |-> self, wait |-> wait_time ]
             ELSE [ self |-> [self EXCEPT !.last_send_time = t], wait |-> 0 ]

\* wait_for_next_interval entered at time t, jitter is
\* random.uniform(min_jitter, max_jitter): the time to sleep, and the instance
\* as the call leaves it when it returns without sleeping
wait_for_next_interval(self, t, jitter) ==
    IF self.fixed_interval = 0
    THEN [ self |-> self, wait |-> 0 ]
    ELSE IF self.last_send_time = 0 \/ t - self.last_send_time >= self.fixed_interval
    THEN [ self |-> [self EXCEPT !.last_send_time = t], wait |-> 0 ]
    ELSE LET wait_time == Max(0, self.fixed_interval - (t - self.last_send_time) + jitter)
         IN  IF wait_time > 0
             THEN [ self |-> self, wait |-> wait_time ]
             ELSE [ self |-> [self EXCEPT !.last_send_time = t], wait |-> 0 ]

\* the end of the sleep without the timestamp being taken
wait_completed_not_recorded(self, t) == self

\* the last line of wait_for_next_interval, run at time t when the sleep is over
wait_completed(self, t) == [self EXCEPT !.last_send_time = t]

-----------------------------------------------------------------------------
(* Inputs of the unit-level specifications *)

\* b"A" * n
Plain(n) == Repeat(<<65>>, n)

\* messages that hold a delimiter, a marker, or the beginning of one
MarkedMessages ==
    { SubSeq(PADDING_DELIM, 1, 9),                 \* b"||PADDING"
      <<97>> \o SubSeq(PADDING_DELIM, 1, 10),      \* b"a||PADDING|"
      <<104, 105>> \o PADDING_DELIM \o <<120>>,    \* b"hi||PADDING||x"
      SubSeq(SIZE_DELIM, 1, 6),                    \* b"||SIZE"
      <<104, 105>> \o SIZE_DELIM \o <<88>>,        \* b"hi||SIZE||X"
      DUMMY_MARKER \o <<104, 105>>,                \* b"||DUMMY||hi"
      <<104, 105>> \o DUMMY_MARKER }               \* b"hi||DUMMY||"

\* the messages handed to the padding and decoy transforms
Messages == {Plain(n) : n \in 0..MaxLen} \cup MarkedMessages

\* the messages handed to the size normaliser
NormMessages ==
    {Plain(n) : n \in 0..MaxLen}
        \cup { SubSeq(SIZE_DELIM, 1, 6),                    \* b"||SIZE"
               SubSeq(SIZE_DELIM, 1, 7),                    \* b"||SIZE|"
               <<104, 105>> \o SIZE_DELIM \o <<88>> }       \* b"hi||SIZE||X"

\* padding_probability values explored, in hundredths
PaddingProbabilities == {0, 30, 100}

\* padding_size_range values explored
PaddingRanges == {<<10, 10>>, <<1, 2>>}

\* avg_size arguments of create_dummy_message explored (100 is the default)
AvgSizes == {5, 12, 100}

\* values of int(random.gauss(avg_size, avg_size/3)) explored
GaussDraws(avg_size) == {0 - avg_size, 0, avg_size, 2 * avg_size, 3 * avg_size}

\* no call made yet
NoCall ==
    [ op |-> "none", arg |-> <<>>, result |-> <<>>, none |-> FALSE, flag |-> FALSE,
      raised |-> "none", target_size |-> NoTarget, history_before |-> <<>>,
      value |-> 0, time |-> 0, elapsed |-> 0, max_elapsed |-> 0, emitted |-> 0,
      after_emit |-> FALSE, count |-> 0, jitter |-> 0, last_before |-> 0,
      wait |-> 0, sleeping |-> FALSE ]

\* a call of a stateless transform that returned bytes
Returned(op, arg, result) == [NoCall EXCEPT !.op = op, !.arg = arg, !.result = result]

\* the parts of the state the unit-level specifications leave alone
SystemIdle ==
    server = <<>> /\ client = <<>> /\ network = <<>> /\ posted = <<>> /\ reply = <<>>

-----------------------------------------------------------------------------
(* Unit level: the padding and decoy transforms of one instance *)

InitPad ==
    /\ now = 0
    /\ \E p \in PaddingProbabilities, range \in PaddingRanges :
           obfuscator = TrafficObfuscator(1, 2, p, range, <<1, 2>>, 0)
    /\ call = NoCall
    /\ SystemIdle
    /\ timing = <<>>
    /\ loaded = <<>>
    /\ handlers = <<>>

CallAddPadding ==
    \E message \in Messages, draw \in RandomDraws :
      \E padding_size \in obfuscator.padding_min..obfuscator.padding_max :
        \E padding \in Urandom(padding_size) :
          /\ call' = Returned("add_padding", message,
                              add_padding(obfuscator, message, draw, padding))
          /\ UNCHANGED <<now, obfuscator, server, client, network, posted, reply,
                         timing, loaded, handlers>>

CallRemovePadding ==
    \E message \in Messages :
        /\ call' = Returned("remove_padding", message, remove_padding(message))
        /\ UNCHANGED <<now, obfuscator, server, client, network, posted, reply,
                       timing, loaded, handlers>>

CallCreateDummyMessage ==
    \E avg_size \in AvgSizes :
      \E gauss \in GaussDraws(avg_size) :
        \E payload \in Urandom(dummy_size(avg_size, gauss)) :
          /\ call' = [Returned("create_dummy_message", <<avg_size>>,
                               create_dummy_message(payload))
                          EXCEPT !.flag = is_dummy_message(create_dummy_message(payload))]
          /\ UNCHANGED <<now, obfuscator, server, client, network, posted, reply,
                         timing, loaded, handlers>>

CallIsDummyMessage ==
    \E message \in Messages :
        /\ call' = [Returned("is_dummy_message", message, <<>>)
                        EXCEPT !.flag = is_dummy_message(message)]
        /\ UNCHANGED <<now, obfuscator, server, client, network, posted, reply,
                       timing, loaded, handlers>>

CallRemoveDummyMarker ==
    \E message \in Messages :
        /\ call' = [Returned("remove_dummy_marker", message,
                             remove_dummy_marker(message).bytes)
                        EXCEPT !.none = remove_dummy_marker(message).none]
        /\ UNCHANGED <<now, obfuscator, server, client, network, posted, reply,
                       timing, loaded, handlers>>

NextPad ==
    \/ CallAddPadding
    \/ CallRemovePadding
    \/ CallCreateDummyMessage
    \/ CallIsDummyMessage
    \/ CallRemoveDummyMarker

SpecPad == InitPad /\ [][NextPad]_vars

-----------------------------------------------------------------------------
(* Unit level: the size normaliser of one instance *)

InitNorm ==
    /\ now = 0
    /\ obfuscator = TrafficObfuscator(1, 2, 30, <<1, 2>>, <<1, 2>>, 0)
    /\ call = NoCall
    /\ SystemIdle
    /\ timing = <<>>
    /\ loaded = <<>>
    /\ handlers = <<>>

CallNormalizeMessageSize ==
    \E message \in NormMessages :
        LET r == normalize_message_size(obfuscator, message)
        IN  /\ call.count < MaxCalls
            /\ obfuscator' = r.self
            /\ call' = [NoCall EXCEPT !.op = "normalize_message_size",
                                      !.count = call.count + 1,
                                      !.arg = message,
                                      !.result = r.result,
                                      !.raised = r.raised,
                                      !.target_size = r.target_size,
                                      !.history_before = obfuscator.message_history]
            /\ UNCHANGED <<now, server, client, network, posted, reply, timing, loaded, handlers>>

CallDenormalizeMessageSize ==
    \E message \in NormMessages :
        /\ call' = [Returned("denormalize_message_size", message,
                             denormalize_message_size(message))
                        EXCEPT !.count = call.count]
        /\ UNCHANGED <<now, obfuscator, server, client, network, posted, reply,
                       timing, loaded, handlers>>

NextNorm ==
    \/ CallNormalizeMessageSize
    \/ CallDenormalizeMessageSize

SpecNorm == InitNorm /\ [][NextNorm]_vars

-----------------------------------------------------------------------------
(* Unit level: the frequency-hop coordinator of one instance *)

\* frequency_hop_interval values explored: 0 <= hop_min <= hop_max, the order
\* the settings validation establishes
HopIntervals == {<<lo, hi>> \in (0..MaxHop) \X (0..MaxHop) : lo <= hi}

InitHop ==
    /\ now = 0
    /\ \E interval \in HopIntervals :
           obfuscator = TrafficObfuscator(1, 2, 30, <<1, 2>>, interval, 0)
    /\ call = NoCall
    /\ SystemIdle
    /\ timing = <<>>
    /\ loaded = <<>>
    /\ handlers = <<>>

\* time passes
Tick ==
    /\ now < MaxTime
    /\ now' = now + 1
    /\ UNCHANGED <<obfuscator, call, server, client, network, posted, reply,
                   timing, loaded, handlers>>

CallGetNextFrequencyHop ==
    \E threshold \in Uniform(obfuscator.hop_min, obfuscator.hop_max), offset \in HopOffsets :
        LET r       == get_next_frequency_hop(obfuscator, now, threshold, offset)
            elapsed == now - obfuscator.last_hop_time
        IN  /\ obfuscator' = r.self
            /\ call' = [NoCall EXCEPT !.op = "get_next_frequency_hop",
                                      !.none = r.none,
                                      !.value = r.value,
                                      !.time = now,
                                      !.elapsed = elapsed,
                                      !.max_elapsed = Max(call.max_elapsed, elapsed),
                                      !.emitted = Min(call.emitted + (IF r.none THEN 0 ELSE 1), 2),
                                      !.after_emit = (call.op = "get_next_frequency_hop"
                                                      /\ ~call.none)]
            /\ UNCHANGED <<now, server, client, network, posted, reply, timing, loaded, handlers>>

NextHop ==
    \/ Tick
    \/ CallGetNextFrequencyHop

SpecHop == InitHop /\ [][NextHop]_vars

-----------------------------------------------------------------------------
(* Claims about the padding codec and the size normaliser *)

\* C1: for every message that does not contain the padding delimiter, whatever
\* the padding decision and the random block, remove_padding(add_padding(m))
\* is m.
C1_UnpadRestoresMessage ==
    (call.op = "add_padding" /\ ~Contains(call.arg, PADDING_DELIM))
        => remove_padding(call.result) = call.arg

\* the call computed a target and returned
TargetComputed ==
    /\ call.op = "normalize_message_size"
    /\ call.raised = "none"
    /\ call.target_size # NoTarget

\* C2: for every message and history state, denormalize_message_size of the
\* output of normalize_message_size is the message whenever its length is at
\* most the target computed by the call.
C2_DenormalizeRestoresMessage ==
    (TargetComputed /\ Len(call.arg) * call.target_size[2] <= call.target_size[1])
        => denormalize_message_size(call.result) = call.arg

\* C3: a message shorter than the target is returned with a total length equal
\* to the target.
C3_NormalizedLengthIsTarget ==
    (TargetComputed /\ Len(call.arg) * call.target_size[2] < call.target_size[1])
        => Len(call.result) * call.target_size[2] = call.target_size[1]

\* n is 2**k for some k >= 0
IsPowerOfTwo(n) == \E k \in 0..n : Pow2(k) = n

\* C4: every call made with a non-empty history computes a target that is a
\* power of two, is at least the mean of the history as it was before the
\* call, and is the smallest such power of two.
C4_TargetIsLeastPowerOfTwo ==
    (call.op = "normalize_message_size" /\ call.history_before # <<>>)
        => LET sum   == Sum(call.history_before)
               count == Len(call.history_before)
               t     == call.target_size
           IN  /\ t # NoTarget
               /\ t[2] = 1
               /\ IsPowerOfTwo(t[1])
               /\ t[1] * count >= sum
               /\ (t[1] = 1 \/ (t[1] \div 2) * count < sum)

\* C5: no transform raises, for any byte sequence in any reachable history
\* state.
C5_TransformsAreTotal == call.raised = "none"

-----------------------------------------------------------------------------
(* Claims about the frequency-hop coordinator *)

\* C6 as stated: while the elapsed time was below hop_max at every call so
\* far, no call has emitted an offset and current_port_offset is unchanged.
C6_NoHopBelowHopMax ==
    (call.op = "get_next_frequency_hop" /\ call.max_elapsed < obfuscator.hop_max)
        => (call.emitted = 0 /\ obfuscator.current_port_offset = 0)

\* C6 amended: while the elapsed time was at most hop_min at every call so far,
\* no call has emitted an offset: every call returned None and
\* current_port_offset is unchanged.
C6_NoHopUpToHopMin ==
    (call.op = "get_next_frequency_hop" /\ call.max_elapsed <= obfuscator.hop_min)
        => (call.emitted = 0 /\ call.none /\ obfuscator.current_port_offset = 0)

\* a call made after time has passed, with every elapsed time so far within
\* hop_min, returned None
C6_Witness ==
    /\ call.op = "get_next_frequency_hop"
    /\ call.elapsed >= 2
    /\ call.max_elapsed <= obfuscator.hop_min
    /\ call.none

\* C7: a call made when the elapsed time exceeds hop_max emits an offset of
\* 1..10, stores it as current_port_offset and sets last_hop_time to the time
\* of the call; a call made with no time elapsed (hop_min >= 0) emits nothing.
C7_HopEmitsAndResets ==
    /\ (call.op = "get_next_frequency_hop" /\ call.elapsed > obfuscator.hop_max)
           => /\ ~call.none
              /\ call.value \in 1..10
              /\ obfuscator.current_port_offset = call.value
              /\ obfuscator.last_hop_time = call.time
    /\ (call.op = "get_next_frequency_hop" /\ call.elapsed = 0 /\ obfuscator.hop_min >= 0)
           => /\ call.none
              /\ (call.after_emit => obfuscator.last_hop_time = call.time)

\* a call right after a hop forced by an elapsed time above hop_max returned None
C7_Witness ==
    /\ call.op = "get_next_frequency_hop"
    /\ call.after_emit
    /\ call.elapsed = 0
    /\ call.max_elapsed > obfuscator.hop_max
    /\ call.none
    /\ obfuscator.current_port_offset \in 1..10
    /\ obfuscator.last_hop_time = now

-----------------------------------------------------------------------------
(* The server: config/settings.py and server/server.py *)

\* Settings.SERVER_PORT
SERVER_PORT == 5684

\* Settings.ENABLE_FREQUENCY_HOPPING (its default)
ENABLE_FREQUENCY_HOPPING == TRUE

\* the validated settings the processes run with; times are in clock ticks of
\* five seconds, probabilities in hundredths
settings ==
    [ MIN_DELAY |-> 0, MAX_DELAY |-> 1,
      PADDING_PROBABILITY |-> 70, MIN_PADDING |-> 1, MAX_PADDING |-> 2,
      MIN_HOP_INTERVAL |-> 1, MAX_HOP_INTERVAL |-> 2,
      FIXED_INTERVAL |-> 1, MIN_JITTER |-> 0, MAX_JITTER |-> 1,
      DUMMY_MSG_PROBABILITY |-> 20 ]

\* b"Message received"
MESSAGE_RECEIVED ==
    <<77, 101, 115, 115, 97, 103, 101, 32, 114, 101, 99, 101, 105, 118, 101, 100>>
\* b"Error: Invalid message encoding"
INVALID_ENCODING ==
    <<69, 114, 114, 111, 114, 58, 32, 73, 110, 118, 97, 108, 105, 100, 32, 109, 101,
      115, 115, 97, 103, 101, 32, 101, 110, 99, 111, 100, 105, 110, 103>>
\* b"Error: ", the beginning of the reply of a handler that caught an exception
ERROR_PREFIX == <<69, 114, 114, 111, 114, 58, 32>>
\* b"Welcome to Metadata-Resistant Network! No previous messages."
WELCOME_EMPTY ==
    <<87, 101, 108, 99, 111, 109, 101, 32, 116, 111, 32, 77, 101, 116, 97, 100, 97,
      116, 97, 45, 82, 101, 115, 105, 115, 116, 97, 110, 116, 32, 78, 101, 116, 119,
      111, 114, 107, 33, 32, 78, 111, 32, 112, 114, 101, 118, 105, 111, 117, 115, 32,
      109, 101, 115, 115, 97, 103, 101, 115, 46>>
\* b"Welcome to Metadata-Resistant Network!\nPrevious messages:\n"
WELCOME_PREVIOUS ==
    <<87, 101, 108, 99, 111, 109, 101, 32, 116, 111, 32, 77, 101, 116, 97, 100, 97,
      116, 97, 45, 82, 101, 115, 105, 115, 116, 97, 110, 116, 32, 78, 101, 116, 119,
      111, 114, 107, 33, 10, 80, 114, 101, 118, 105, 111, 117, 115, 32, 109, 101,
      115, 115, 97, 103, 101, 115, 58, 10>>

\* bytes.decode() succeeds (the bytes explored are ASCII or invalid UTF-8)
Decodable(bytes) == \A i \in 1..Len(bytes) : bytes[i] < 128

\* f"[{timestamp}] {client_display}: {message}", with b"t" for the formatted
\* time t and b"U" for the anonymised client
FormattedMessage(t, message) == <<91, 116, 93, 32, 85, 58, 32>> \o message

RECURSIVE Join(_)
\* "\n".join(messages)
Join(messages) ==
    IF messages = <<>> THEN <<>>
    ELSE IF Len(messages) = 1 THEN Head(messages)
    ELSE Head(messages) \o <<10>> \o Join(Tail(messages))

\* PrivacyEnhancedResource.__init__ (the obfuscator is the server's, shared)
PrivacyEnhancedResource(timing_obfuscator) ==
    [ messages |-> <<>>, clients |-> {}, timing_obfuscator |-> timing_obfuscator ]

\* the TimingObfuscator the server builds from the settings
ServerTimingObfuscator ==
    TimingObfuscator(settings.FIXED_INTERVAL,
                     <<settings.MIN_JITTER, settings.MAX_JITTER>>,
                     settings.DUMMY_MSG_PROBABILITY)

\* the completion of the handler's wait_for_next_interval entered at time t:
\* the instance with last_send_time taken after the wait
handler_wait(self, t, jitter) ==
    LET w == wait_for_next_interval(self, t, jitter)
    IN  IF w.wait > 0 THEN wait_completed(self, t + w.wait) ELSE w.self

\* render_post on resource res of server srv at time t: the server after the
\* handler, the reply, and whether the payload was decoded and stored
render_post(srv, payload, t, draw, padding, jitter) ==
    LET res           == srv.message_resource
        message_bytes == remove_dummy_marker(
                             denormalize_message_size(remove_padding(payload)))
    IN  IF message_bytes.none
        THEN [ srv |-> srv, payload |-> MESSAGE_RECEIVED, appended |-> FALSE ]
        ELSE IF ~Decodable(message_bytes.bytes)
        THEN [ srv |-> srv, payload |-> INVALID_ENCODING, appended |-> FALSE ]
        ELSE LET message == message_bytes.bytes
                 stored  == [res EXCEPT
                                !.clients = @ \cup {"client"},
                                !.messages = Append(@, FormattedMessage(t, message)),
                                !.timing_obfuscator = handler_wait(@, t, jitter)]
             IN  [ srv      |-> [srv EXCEPT !.message_resource = stored],
                   payload  |-> add_padding(srv.obfuscator,
                                            MESSAGE_RECEIVED \o <<58, 32>> \o message,
                                            draw, padding),
                   appended |-> TRUE ]

\* render_get on resource res of server srv at time t
render_get(srv, t, draw, padding, jitter) ==
    LET res     == srv.message_resource
        payload == IF res.messages # <<>>
                   THEN WELCOME_PREVIOUS \o Join(res.messages)
                   ELSE WELCOME_EMPTY
        norm    == normalize_message_size(srv.obfuscator,
                       add_padding(srv.obfuscator, payload, draw, padding))
        known   == [res EXCEPT !.clients = @ \cup {"client"}]
    IN  IF norm.raised # "none"
        THEN [ srv |-> [srv EXCEPT !.obfuscator = norm.self,
                                   !.message_resource = known],
               payload |-> ERROR_PREFIX, appended |-> FALSE ]
        ELSE [ srv |-> [srv EXCEPT
                           !.obfuscator = norm.self,
                           !.message_resource =
                               [known EXCEPT !.timing_obfuscator =
                                                 handler_wait(@, t, jitter)]],
               payload |-> norm.result, appended |-> FALSE ]

\* main() of the server started at time t: the obfuscator, the resource tree,
\* the listening context and the hop task about to sleep for hop_interval
ServerMain(t, hop_interval) ==
    LET ob == TrafficObfuscator(settings.MIN_DELAY, settings.MAX_DELAY,
                                settings.PADDING_PROBABILITY,
                                <<settings.MIN_PADDING, settings.MAX_PADDING>>,
                                <<settings.MIN_HOP_INTERVAL, settings.MAX_HOP_INTERVAL>>,
                                t)
    IN  [ obfuscator       |-> ob,
          message_resource |-> PrivacyEnhancedResource(ServerTimingObfuscator),
          context          |-> [ port |-> SERVER_PORT + ob.current_port_offset,
                                 open |-> TRUE ],
          hop_wake         |-> t + hop_interval ]

\* one iteration of frequency_hopping_task, run at time t when its sleep is
\* over: the hop check and, on a hop, the shutdown of the context and the
\* creation of a fresh resource tree and context on the new port.  bound is
\* whether create_server_context succeeds; hop_interval is the next sleep.
frequency_hopping_task(srv, t, threshold, offset, bound, hop_interval) ==
    LET hop   == get_next_frequency_hop(srv.obfuscator, t, threshold, offset)
        slept == [srv EXCEPT !.obfuscator = hop.self, !.hop_wake = t + hop_interval]
    IN  IF hop.none THEN slept
        ELSE IF bound
        THEN [slept EXCEPT
                 !.message_resource = PrivacyEnhancedResource(ServerTimingObfuscator),
                 !.context = [ port |-> SERVER_PORT + hop.value, open |-> TRUE ]]
        ELSE [slept EXCEPT !.context.open = FALSE]

-----------------------------------------------------------------------------
(* The client: client/client.py *)

\* the throttle of the client's hop check, "current_time - last_port_check >= 5"
\* seconds: one clock tick
PORT_CHECK_INTERVAL == 1

\* PrivacyEnhancedClient.__init__, with the local state of the send_request in
\* progress: pc (where it is suspended), method, payload, wake (end of the
\* current sleep), decoy (the request was replaced by a dummy) and sends (the
\* number of send_request calls made); and what the call in progress has done
\* so far: checked (it called get_next_frequency_hop), exceeded (the elapsed
\* time was above the threshold drawn), hop_none (the call returned None),
\* delays and delay (the random delays applied and the last value drawn),
\* encoded (what add_padding and normalize_message_size returned) and requests
\* (the requests handed to the transport); initial_port is the server_port
\* argument of the constructor
PrivacyEnhancedClient(server_port, obfuscator_, timing_obfuscator) ==
    [ server_port         |-> server_port,
      initial_port        |-> server_port,
      obfuscator          |-> obfuscator_,
      timing_obfuscator   |-> timing_obfuscator,
      current_port_offset |-> 0,
      last_port_check     |-> 0,
      pc                  |-> "idle",
      method              |-> "none",
      payload             |-> <<>>,
      wake                |-> 0,
      decoy               |-> FALSE,
      sends               |-> 0,
      checked             |-> FALSE,
      exceeded            |-> FALSE,
      hop_none            |-> FALSE,
      delays              |-> 0,
      delay               |-> 0,
      encoded             |-> <<>>,
      requests            |-> 0 ]

\* nothing in flight
Idle == [ kind |-> "idle", port |-> 0, method |-> "none", payload |-> <<>>,
          appended |-> FALSE ]

\* no send_request has returned yet.  outcome is how the call ended, raised
\* the exception it raised to its caller, requests the requests it handed to
\* the transport, at where it was suspended when it was cancelled
NoReply ==
    [ method |-> "none", decoy |-> FALSE, none |-> TRUE, result |-> <<>>,
      outcome |-> "none", appended |-> FALSE, raised |-> "none", requests |-> 0,
      at |-> "none" ]

\* a hop check that takes the port the server listens on (server is the state
\* of the server process)
hop_check_following_server(self, t, threshold, offset) ==
    IF ENABLE_FREQUENCY_HOPPING /\ t - self.last_port_check >= PORT_CHECK_INTERVAL
    THEN LET hop == get_next_frequency_hop(self.obfuscator, t, threshold, offset)
         IN  [self EXCEPT !.last_port_check = t, !.obfuscator = hop.self,
                          !.current_port_offset = server.context.port - SERVER_PORT,
                          !.server_port = server.context.port]
    ELSE [self EXCEPT !.current_port_offset = server.context.port - SERVER_PORT,
                      !.server_port = server.context.port]

\* the hop check made by every send_request
hop_check_unthrottled(self, t, threshold, offset) ==
    LET hop     == get_next_frequency_hop(self.obfuscator, t, threshold, offset)
        checked == [self EXCEPT
                       !.last_port_check = t, !.obfuscator = hop.self,
                       !.checked = TRUE,
                       !.exceeded = (t - self.obfuscator.last_hop_time > threshold),
                       !.hop_none = hop.none]
    IN  IF ~hop.none /\ hop.value # self.current_port_offset
        THEN [checked EXCEPT !.current_port_offset = hop.value,
                             !.server_port = SERVER_PORT + hop.value]
        ELSE checked

\* the first lines of send_request at time t: the throttled hop check
hop_check(self, t, threshold, offset) ==
    IF ENABLE_FREQUENCY_HOPPING /\ t - self.last_port_check >= PORT_CHECK_INTERVAL
    THEN LET hop     == get_next_frequency_hop(self.obfuscator, t, threshold, offset)
             checked == [self EXCEPT
                            !.last_port_check = t, !.obfuscator = hop.self,
                            !.checked = TRUE,
                            !.exceeded = (t - self.obfuscator.last_hop_time > threshold),
                            !.hop_none = hop.none]
         IN  IF ~hop.none /\ hop.value # self.current_port_offset
             THEN [checked EXCEPT !.current_port_offset = hop.value,
                                  !.server_port = SERVER_PORT + hop.value]
             ELSE checked
    ELSE self

\* send_request going on without the random delay
apply_random_delay_skipped(self, t, delay) ==
    [self EXCEPT !.pc = "delay", !.wake = t]

\* "await self.obfuscator.apply_random_delay()" at time t: send_request is
\* suspended for the delay drawn by random.uniform(min_delay, max_delay)
apply_random_delay(self, t, delay) ==
    [self EXCEPT !.pc = "delay", !.wake = t + delay, !.delay = delay,
                 !.delays = @ + 1]

\* send_request from "Prepare payload" to the request handed to the transport:
\* the client after it, the request, and the exception raised
prepare_request(self, draw, padding, dummy_draw, dummy) ==
    LET norm == IF self.payload # <<>>
                THEN normalize_message_size(self.obfuscator,
                         add_padding(self.obfuscator, self.payload, draw, padding))
                ELSE [ self |-> self.obfuscator, result |-> self.payload,
                       raised |-> "none", target_size |-> NoTarget ]
        replaced == should_send_dummy(self.timing_obfuscator, dummy_draw)
                        /\ self.method = "POST"
        payload  == IF replaced THEN dummy ELSE norm.result
    IN  [ self    |-> [self EXCEPT !.obfuscator = norm.self,
                                   !.encoded = norm.result,
                                   !.payload = IF norm.raised = "none" THEN payload ELSE @,
                                   !.decoy = (norm.raised = "none" /\ replaced)],
          raised  |-> norm.raised,
          request |-> [ kind |-> "request", port |-> self.server_port,
                        method |-> self.method, payload |-> payload,
                        appended |-> FALSE ] ]

\* send_request from "Process the response": the value returned (none: None)
process_response(payload) ==
    IF payload # <<>>
    THEN LET stripped == denormalize_message_size(remove_padding(payload))
         IN  IF is_dummy_message(stripped)
             THEN [ none |-> TRUE, bytes |-> <<>> ]
             ELSE [ none |-> FALSE, bytes |-> stripped ]
    ELSE [ none |-> TRUE, bytes |-> <<>> ]

\* send_message: True when send_request returned a non-empty payload (given
\* as the record process_response returns)
send_message(response_payload) ==
    ~response_payload.none /\ response_payload.bytes # <<>>

-----------------------------------------------------------------------------
(* System level: one client and the server *)

\* payload arguments of send_request for a POST
Payloads == { <<104, 105>> }

\* the blocks of n random bytes explored at system level as padding
SysUrandom(n) == { Fill(<<>>, n) }

\* the blocks of n random bytes explored at system level as dummy payloads:
\* b"zz..." and b"PADDING||z..."
SysDummyPayloads(n) == { Fill(p, n) : p \in { <<>>, SubSeq(PADDING_DELIM, 3, 11) } }

\* the port offsets explored at system level, out of random.randint(1, 10)
SysHopOffsets == {1, 10}

\* the dummy messages create_dummy_message() returns (avg_size = 100) that are
\* explored
DummyMessages ==
    { create_dummy_message(p) :
          p \in UNION { SysDummyPayloads(dummy_size(100, g)) : g \in {0} } }

\* fixed_interval values of the client's TimingObfuscator explored (None, the
\* default of the client's TimingObfuscator(), is 0)
FixedIntervals == {0}

InitSys ==
    /\ now = 1
    /\ obfuscator = <<>>
    /\ call = NoCall
    /\ \E hop_interval \in Uniform(settings.MIN_HOP_INTERVAL, settings.MAX_HOP_INTERVAL) :
           server = ServerMain(1, hop_interval)
    /\ \E fixed_interval \in FixedIntervals :
           client = PrivacyEnhancedClient(
                        SERVER_PORT,
                        TrafficObfuscator(0, 1, 30, <<1, 1>>, <<1, 2>>, 1),
                        TimingObfuscator(fixed_interval, <<0, 1>>, 20))
    /\ network = Idle
    /\ posted = <<>>
    /\ reply = NoReply
    /\ timing = <<>>
    /\ loaded = <<>>
    /\ handlers = <<>>

\* time passes
SysTick ==
    /\ now < MaxTime
    /\ now' = now + 1
    /\ UNCHANGED <<obfuscator, call, server, client, network, posted, reply,
                   timing, loaded, handlers>>

\* send_request is called, at most limit times: hop check, then the random
\* delay starts
SendRequestCall(limit) ==
    /\ client.pc = "idle"
    /\ client.sends < limit
    /\ \E method \in {"GET", "POST"} :
         \E payload \in (IF method = "POST" THEN Payloads ELSE {<<>>}) :
           \E threshold \in Uniform(client.obfuscator.hop_min, client.obfuscator.hop_max),
              offset \in SysHopOffsets,
              delay \in Uniform(client.obfuscator.min_delay, client.obfuscator.max_delay) :
                client' = [apply_random_delay(hop_check(client, now, threshold, offset),
                                              now, delay) EXCEPT
                              !.method = method, !.payload = payload,
                              !.decoy = FALSE, !.sends = @ + 1]
    /\ UNCHANGED <<now, obfuscator, call, server, network, posted, reply,
                   timing, loaded, handlers>>

SendRequestCalled == SendRequestCall(MaxSends)

\* send_request returns: its local variables are gone
SendRequestLeft(self) ==
    [self EXCEPT !.pc = "idle", !.method = "none", !.payload = <<>>, !.wake = 0,
                 !.decoy = FALSE, !.checked = FALSE, !.exceeded = FALSE,
                 !.hop_none = FALSE, !.delays = 0, !.delay = 0, !.encoded = <<>>,
                 !.requests = 0]

\* the rest of send_request up to the transport request, for the draws given
SendPrepared(self) ==
    \E draw \in RandomDraws, dummy_draw \in RandomDraws, dummy \in DummyMessages :
      \E padding_size \in self.obfuscator.padding_min..self.obfuscator.padding_max :
        \E padding \in SysUrandom(padding_size) :
          LET p == prepare_request(self, draw, padding, dummy_draw, dummy)
          IN  IF p.raised = "none"
              THEN /\ client' = [p.self EXCEPT !.pc = "request", !.requests = @ + 1]
                   /\ network' = p.request
                   /\ reply' = reply
              ELSE /\ client' = SendRequestLeft(p.self)
                   /\ network' = network
                   /\ reply' = [NoReply EXCEPT !.method = self.method,
                                               !.outcome = "exception"]

\* the random delay is over: wait_for_next_interval, and unless it sleeps the
\* request is prepared and handed to the transport (with the fixed_interval of
\* FixedIntervals, the client's default, it never sleeps)
SendRequestDelayed ==
    /\ client.pc = "delay"
    /\ now >= client.wake
    /\ \E jitter \in Uniform(client.timing_obfuscator.min_jitter,
                             client.timing_obfuscator.max_jitter) :
         LET w == wait_for_next_interval(client.timing_obfuscator, now, jitter)
         IN  IF w.wait > 0
             THEN /\ client' = [client EXCEPT !.pc = "wait", !.wake = now + w.wait]
                  /\ UNCHANGED <<network, reply>>
             ELSE SendPrepared([client EXCEPT !.timing_obfuscator = w.self])
    /\ UNCHANGED <<now, obfuscator, call, server, posted, timing, loaded, handlers>>

\* the request reaches the listening context and its handler runs
ServerHandles ==
    /\ network.kind = "request"
    /\ server.context.open
    /\ server.context.port = network.port
    /\ \E draw \in RandomDraws,
          jitter \in Uniform(settings.MIN_JITTER, settings.MAX_JITTER) :
         \E padding_size \in server.obfuscator.padding_min..server.obfuscator.padding_max :
           \E padding \in SysUrandom(padding_size) :
             LET r == IF network.method = "POST"
                      THEN render_post(server, network.payload, now, draw, padding, jitter)
                      ELSE render_get(server, now, draw, padding, jitter)
             IN  /\ server' = r.srv
                 /\ network' = [Idle EXCEPT !.kind = "response",
                                            !.payload = r.payload,
                                            !.appended = r.appended]
                 /\ posted' = IF r.appended
                              THEN Append(posted, r.srv.message_resource.messages[
                                              Len(r.srv.message_resource.messages)])
                              ELSE posted
    /\ UNCHANGED <<now, obfuscator, call, client, reply, timing, loaded, handlers>>

\* no context listens on the request's port: the transport reports an error
TransportFails ==
    /\ network.kind = "request"
    /\ ~(server.context.open /\ server.context.port = network.port)
    /\ network' = [Idle EXCEPT !.kind = "error"]
    /\ UNCHANGED <<now, obfuscator, call, server, client, posted, reply, timing, loaded, handlers>>

\* the response arrives: send_request processes it and returns
SendRequestReturns ==
    /\ client.pc = "request"
    /\ network.kind = "response"
    /\ LET r == process_response(network.payload)
       IN  reply' = [ method |-> client.method, decoy |-> client.decoy,
                      none |-> r.none, result |-> r.bytes, outcome |-> "response",
                      appended |-> network.appended, raised |-> "none",
                      requests |-> client.requests, at |-> "none" ]
    /\ client' = SendRequestLeft(client)
    /\ network' = Idle
    /\ UNCHANGED <<now, obfuscator, call, server, posted, timing, loaded, handlers>>

\* the transport error is caught by "except asyncio.TimeoutError" or "except
\* Exception": it is logged and send_request returns None
SendRequestFails ==
    /\ client.pc = "request"
    /\ network.kind = "error"
    /\ reply' = [NoReply EXCEPT !.method = client.method, !.decoy = client.decoy,
                                !.outcome = "error", !.none = TRUE,
                                !.raised = "none", !.requests = client.requests]
    /\ client' = SendRequestLeft(client)
    /\ network' = Idle
    /\ UNCHANGED <<now, obfuscator, call, server, posted, timing, loaded, handlers>>

\* the hop task wakes up and runs one iteration
FrequencyHoppingTask ==
    /\ ENABLE_FREQUENCY_HOPPING
    /\ now >= server.hop_wake
    /\ \E threshold \in Uniform(server.obfuscator.hop_min, server.obfuscator.hop_max),
          offset \in SysHopOffsets, bound \in BOOLEAN,
          hop_interval \in Uniform(settings.MIN_HOP_INTERVAL, settings.MAX_HOP_INTERVAL) :
         server' = frequency_hopping_task(server, now, threshold, offset, bound,
                                          hop_interval)
    /\ UNCHANGED <<now, obfuscator, call, client, network, posted, reply,
                   timing, loaded, handlers>>

NextSys ==
    \/ SysTick
    \/ SendRequestCalled
    \/ SendRequestDelayed
    \/ ServerHandles
    \/ TransportFails
    \/ SendRequestReturns
    \/ SendRequestFails
    \/ FrequencyHoppingTask

SpecSys == InitSys /\ [][NextSys]_vars

-----------------------------------------------------------------------------
(* The client alone: nothing listens on the ports it sends to *)

\* the send_request calls of the client alone
MaxLoneSends == 2

\* fixed_interval values of the TimingObfuscator handed to the client (None,
\* the default, is 0)
ClientIntervals == {0, 1}

\* the --port argument of the client explored: the default, which is
\* Settings.SERVER_PORT, and another port
ClientPorts == {SERVER_PORT, SERVER_PORT + 100}

\* send_request cancelled while suspended, with the request handed to the
\* transport all the same
send_request_cancelled_sending(self) ==
    [ self    |-> SendRequestLeft(self),
      raised  |-> "CancelledError",
      request |-> [ kind |-> "request", port |-> self.server_port,
                    method |-> self.method, payload |-> self.payload,
                    appended |-> FALSE ] ]

\* send_request cancelled while suspended in asyncio.sleep (the random delay
\* or the fixed-interval wait): CancelledError, which no except clause of
\* send_request catches, ends the call; nothing is handed to the transport
send_request_cancelled(self) ==
    [ self    |-> SendRequestLeft(self),
      raised  |-> "CancelledError",
      request |-> Idle ]

InitClient ==
    /\ now = 1
    /\ obfuscator = <<>>
    /\ call = NoCall
    /\ server = [ServerMain(1, settings.MIN_HOP_INTERVAL) EXCEPT !.context.open = FALSE]
    /\ \E fixed_interval \in ClientIntervals, port \in ClientPorts :
           client = PrivacyEnhancedClient(
                        port,
                        TrafficObfuscator(0, 1, 30, <<1, 1>>, <<0, 1>>, 1),
                        TimingObfuscator(fixed_interval, <<0, 1>>, 20))
    /\ network = Idle
    /\ posted = <<>>
    /\ reply = NoReply
    /\ timing = <<>>
    /\ loaded = <<>>
    /\ handlers = <<>>

SendRequestCalledAlone == SendRequestCall(MaxLoneSends)

\* the sleep of wait_for_next_interval is over: the timestamp is taken, the
\* request is prepared and handed to the transport
SendRequestWaited ==
    /\ client.pc = "wait"
    /\ now >= client.wake
    /\ SendPrepared([client EXCEPT
                        !.timing_obfuscator = wait_completed(@, now)])
    /\ UNCHANGED <<now, obfuscator, call, server, posted, timing, loaded, handlers>>

\* the task running send_request is cancelled while it sleeps
SendRequestCancelled ==
    /\ client.pc \in {"delay", "wait"}
    /\ LET c == send_request_cancelled(client)
       IN  /\ client' = c.self
           /\ network' = c.request
           /\ reply' = [NoReply EXCEPT !.method = client.method,
                                       !.outcome = "cancelled",
                                       !.raised = c.raised,
                                       !.requests = client.requests,
                                       !.at = client.pc]
    /\ UNCHANGED <<now, obfuscator, call, server, posted, timing, loaded, handlers>>

NextClient ==
    \/ SysTick
    \/ SendRequestCalledAlone
    \/ SendRequestDelayed
    \/ SendRequestWaited
    \/ SendRequestCancelled
    \/ TransportFails
    \/ SendRequestFails

SpecClient == InitClient /\ [][NextClient]_vars

-----------------------------------------------------------------------------
(* Claims about the server's hop and the decoys *)

\* C8: the application state is migrated by a hop: every entry stored so far
\* is held by the message resource of the listening endpoint (and so is
\* returned by a GET on its port).
C8_MessagesMigrated ==
    server.context.open
        => \A i \in 1..Len(posted) :
               \E j \in 1..Len(server.message_resource.messages) :
                   server.message_resource.messages[j] = posted[i]

\* C9: a request the client replaced by a decoy is dropped by render_post:
\* nothing is decoded and stored for it, whatever the decoy's random bytes.
C9_DecoysDropped ==
    (network.kind = "response" /\ client.pc = "request" /\ client.decoy)
        => ~network.appended

\* C10: when the request was replaced by a decoy, send_request does not hand
\* the server's reply payload to its caller.
C10_DecoyReplyNotReturned ==
    (reply.outcome = "response" /\ reply.decoy) => reply.none

-----------------------------------------------------------------------------
(* Claims about the decoy marker and the padding decision *)

\* C11: is_dummy_message(create_dummy_message(x)) is true for every mean size
\* x and every random payload.
C11_CreatedDummyIsDummy ==
    call.op = "create_dummy_message" => is_dummy_message(call.result)

\* a decoy whose random payload begins with b"PADDING||" was created
C11_Witness ==
    /\ call.op = "create_dummy_message"
    /\ StartsWith(call.result, DUMMY_MARKER \o SubSeq(PADDING_DELIM, 3, 11))
    /\ is_dummy_message(call.result)

\* C12: is_dummy_message(add_padding(m)) is false for every message m, for
\* either padding decision and any padding block.
C12_PaddedMessageIsNotDummy ==
    call.op = "add_padding" => ~is_dummy_message(call.result)

\* the length of the random payload of the decoy returned by the call
dummy_payload_length == Len(call.result) - Len(DUMMY_MARKER)

\* C13 as stated: for every mean size x, the payload that follows the marker
\* has a length within [20, 2*x].
C13_PayloadLengthClamped ==
    call.op = "create_dummy_message"
        => (20 <= dummy_payload_length /\ dummy_payload_length <= 2 * call.arg[1])

\* C13 amended: for every mean size x >= 10 the payload length is within
\* [20, 2*x]; for x < 10 it is 20.
C13_PayloadLengthClampedFromTen ==
    call.op = "create_dummy_message"
        => IF call.arg[1] >= 10
           THEN 20 <= dummy_payload_length /\ dummy_payload_length <= 2 * call.arg[1]
           ELSE dummy_payload_length = 20

\* a decoy for mean size 12 whose payload has the largest length allowed, 24
C13_Witness ==
    /\ call.op = "create_dummy_message"
    /\ call.arg = <<12>>
    /\ dummy_payload_length = 24

\* C20: with padding_probability 1.0 add_padding returns the message, the
\* delimiter and a block of padding_min..padding_max bytes; with
\* padding_probability 0 it returns the message unchanged.
C20_PaddingDecisionAtTheExtremes ==
    /\ (call.op = "add_padding" /\ obfuscator.padding_probability = 100)
           => /\ StartsWith(call.result, call.arg \o PADDING_DELIM)
              /\ Len(call.result) - Len(call.arg) - Len(PADDING_DELIM)
                     \in obfuscator.padding_min..obfuscator.padding_max
    /\ (call.op = "add_padding" /\ obfuscator.padding_probability = 0)
           => call.result = call.arg

\* with probability 1.0 and bounds (10, 10), a non-empty message came back with
\* the delimiter and exactly 10 bytes
C20_Witness ==
    /\ call.op = "add_padding"
    /\ obfuscator.padding_probability = 100
    /\ obfuscator.padding_min = 10 /\ obfuscator.padding_max = 10
    /\ call.arg # <<>>
    /\ Len(call.result) = Len(call.arg) + Len(PADDING_DELIM) + 10

-----------------------------------------------------------------------------
(* Unit level: the pacing of one TimingObfuscator instance *)

\* fixed_interval values explored (0: None or 0, pacing disabled)
PaceIntervals == {0, 1, 2}

\* jitter_range values explored: the bounds are not validated anywhere, so
\* they come in either order and with either sign
JitterRanges == { <<0, 1>>, <<1, 0>>, <<0 - 2, 0 - 1>> }

InitPace ==
    /\ now = 1
    /\ obfuscator = <<>>
    /\ call = NoCall
    /\ SystemIdle
    /\ \E fixed_interval \in PaceIntervals, jitter_range \in JitterRanges :
           timing = TimingObfuscator(fixed_interval, jitter_range, 20)
    /\ loaded = <<>>
    /\ handlers = <<>>

\* time passes
PaceTick ==
    /\ now < MaxTime
    /\ now' = now + 1
    /\ UNCHANGED <<obfuscator, call, server, client, network, posted, reply,
                   timing, loaded, handlers>>

\* wait_for_next_interval is called (the previous call has returned) and runs
\* up to its return or its asyncio.sleep
CallWaitForNextInterval ==
    /\ ~call.sleeping
    /\ \E jitter \in Uniform(timing.min_jitter, timing.max_jitter) :
         LET w == wait_for_next_interval(timing, now, jitter)
         IN  /\ timing' = w.self
             /\ call' = [NoCall EXCEPT !.op = "wait_for_next_interval",
                                       !.time = now,
                                       !.elapsed = now - timing.last_send_time,
                                       !.last_before = timing.last_send_time,
                                       !.jitter = jitter,
                                       !.wait = w.wait,
                                       !.sleeping = (w.wait > 0),
                                       !.count = Min(call.count + 1, 2)]
    /\ UNCHANGED <<now, obfuscator, server, client, network, posted, reply, loaded, handlers>>

\* the sleep is over (at the wake-up time or later): the timestamp is taken
\* and the call returns
WaitCompleted ==
    /\ call.sleeping
    /\ now >= call.time + call.wait
    /\ timing' = wait_completed(timing, now)
    /\ call' = [call EXCEPT !.sleeping = FALSE]
    /\ UNCHANGED <<now, obfuscator, server, client, network, posted, reply, loaded, handlers>>

NextPace ==
    \/ PaceTick
    \/ CallWaitForNextInterval
    \/ WaitCompleted

SpecPace == InitPace /\ [][NextPace]_vars

-----------------------------------------------------------------------------
(* Claims about the pacing *)

\* C14: with fixed_interval 0 (or None) wait_for_next_interval never suspends
\* and never changes last_send_time, however many calls are made and whenever.
C14_NoPacingWithoutInterval ==
    (call.op = "wait_for_next_interval" /\ timing.fixed_interval = 0)
        => /\ ~call.sleeping
           /\ call.wait = 0
           /\ timing.last_send_time = call.last_before
           /\ timing.last_send_time = 0

\* with fixed_interval 0, a second or later call made after time has passed
\* returned at once
C14_Witness ==
    /\ call.op = "wait_for_next_interval"
    /\ timing.fixed_interval = 0
    /\ call.count >= 2
    /\ call.time > 1
    /\ ~call.sleeping

\* C15: with fixed_interval T > 0, a call that is the first on the instance,
\* or that starts when at least T has elapsed since last_send_time, does not
\* suspend and records the time of the call as last_send_time.
C15_SendsAtOnceAfterInterval ==
    (/\ call.op = "wait_for_next_interval"
     /\ timing.fixed_interval > 0
     /\ (call.count = 1 \/ call.elapsed >= timing.fixed_interval))
        => /\ ~call.sleeping
           /\ call.wait = 0
           /\ timing.last_send_time = call.time

\* a later call made exactly T after the previous send returned at once
C15_Witness ==
    /\ call.op = "wait_for_next_interval"
    /\ timing.fixed_interval > 0
    /\ call.count >= 2
    /\ call.last_before # 0
    /\ call.elapsed = timing.fixed_interval
    /\ ~call.sleeping
    /\ timing.last_send_time = call.time

\* the call was made after a previous send, before the interval had elapsed
PacedCall ==
    /\ call.op = "wait_for_next_interval"
    /\ timing.fixed_interval > 0
    /\ call.last_before # 0
    /\ call.elapsed < timing.fixed_interval

\* the wait is max(0, T - elapsed + jitter), the jitter drawn between the bounds
WaitIsIntervalPlusJitter ==
    /\ call.wait = Max(0, timing.fixed_interval - call.elapsed + call.jitter)
    /\ call.jitter \in Uniform(timing.min_jitter, timing.max_jitter)

\* C16 as stated: with fixed_interval T > 0, a call issued back-to-back after a
\* previous send waits at least T - jitter_max, and the wait of a paced call
\* is max(0, T - elapsed + jitter).
C16_BackToBackWaits ==
    /\ PacedCall => WaitIsIntervalPlusJitter
    /\ (PacedCall /\ call.elapsed = 0)
           => call.wait >= timing.fixed_interval - timing.max_jitter

\* C16 amended: the same when the jitter bounds are not negative; the call then
\* suspends, for at least T.
C16_BackToBackWaitsWithPositiveJitter ==
    /\ PacedCall => WaitIsIntervalPlusJitter
    /\ (PacedCall /\ call.elapsed = 0 /\ timing.min_jitter >= 0 /\ timing.max_jitter >= 0)
           => /\ call.wait > 0
              /\ call.wait >= timing.fixed_interval
              /\ call.wait >= timing.fixed_interval - timing.max_jitter

\* a back-to-back call with jitter drawn from non-negative bounds went to sleep
\* and its sleep completed
C16_Witness ==
    /\ PacedCall
    /\ call.elapsed = 0
    /\ timing.min_jitter >= 0 /\ timing.max_jitter >= 0
    /\ call.jitter > 0
    /\ call.wait = timing.fixed_interval + call.jitter
    /\ ~call.sleeping
    /\ timing.last_send_time >= call.time + call.wait

-----------------------------------------------------------------------------
(* config/settings.py: the Settings read from the environment *)

\* Settings._validate_settings: delays and jitter are in tenths of a second,
\* probabilities in hundredths
_validate_settings(self) ==
    LET delay   == IF self.MIN_DELAY >= self.MAX_DELAY
                   THEN [self EXCEPT !.MAX_DELAY = self.MIN_DELAY + 5]
                   ELSE self
        padding == IF delay.MIN_PADDING >= delay.MAX_PADDING
                   THEN [delay EXCEPT !.MAX_PADDING = delay.MIN_PADDING + 100]
                   ELSE delay
        hop     == IF padding.MIN_HOP_INTERVAL >= padding.MAX_HOP_INTERVAL
                   THEN [padding EXCEPT !.MAX_HOP_INTERVAL = padding.MIN_HOP_INTERVAL + 30]
                   ELSE padding
        pad_p   == IF hop.PADDING_PROBABILITY < 0 \/ hop.PADDING_PROBABILITY > 100
                   THEN [hop EXCEPT !.PADDING_PROBABILITY = Max(0, Min(100, @))]
                   ELSE hop
    IN  IF pad_p.DUMMY_MSG_PROBABILITY < 0 \/ pad_p.DUMMY_MSG_PROBABILITY > 100
        THEN [pad_p EXCEPT !.DUMMY_MSG_PROBABILITY = Max(0, Min(100, @))]
        ELSE pad_p

\* values of a bound explored: every pair of them is in order, equal or inverted
EnvBounds == {1, 2}

\* values of a probability explored, in hundredths: below 0, inside, above 1
EnvProbabilities == {0 - 50, 70, 150}

\* the class attributes of Settings for the environments explored
Environments ==
    [ MIN_DELAY : EnvBounds, MAX_DELAY : EnvBounds,
      MIN_PADDING : EnvBounds, MAX_PADDING : EnvBounds,
      MIN_HOP_INTERVAL : EnvBounds, MAX_HOP_INTERVAL : EnvBounds,
      MIN_JITTER : EnvBounds, MAX_JITTER : EnvBounds,
      PADDING_PROBABILITY : EnvProbabilities,
      DUMMY_MSG_PROBABILITY : EnvProbabilities ]

\* the module is imported: the class attributes hold the environment's values
InitSettings ==
    /\ now = 0
    /\ obfuscator = <<>>
    /\ call = NoCall
    /\ SystemIdle
    /\ timing = <<>>
    /\ loaded \in Environments
    /\ handlers = <<>>

\* settings = Settings(): __init__ validates the values
SettingsInit ==
    /\ call.op = "none"
    /\ loaded' = _validate_settings(loaded)
    /\ call' = [NoCall EXCEPT !.op = "Settings"]
    /\ UNCHANGED <<now, obfuscator, server, client, network, posted, reply, timing, handlers>>

NextSettings == SettingsInit

SpecSettings == InitSettings /\ [][NextSettings]_vars

\* C17: after the settings are loaded, min <= max holds for the delay, the
\* padding size, the hop interval and the jitter, and both probabilities lie
\* in [0, 1].
C17_SettingsAreValid ==
    call.op = "Settings"
        => /\ loaded.MIN_DELAY <= loaded.MAX_DELAY
           /\ loaded.MIN_PADDING <= loaded.MAX_PADDING
           /\ loaded.MIN_HOP_INTERVAL <= loaded.MAX_HOP_INTERVAL
           /\ loaded.MIN_JITTER <= loaded.MAX_JITTER
           /\ loaded.PADDING_PROBABILITY \in 0..100
           /\ loaded.DUMMY_MSG_PROBABILITY \in 0..100

-----------------------------------------------------------------------------
(* Unit level: the size history of one instance, from empty and from nearly full *)

\* the history after normalising messages of 1, 2, ... bytes, two short of full
NearlyFullHistory == [i \in 1..(HISTORY_MAXLEN - 2) |-> i]

InitHistory ==
    /\ now = 0
    /\ \E history \in { <<>>, NearlyFullHistory } :
           obfuscator = [TrafficObfuscator(1, 2, 30, <<1, 2>>, <<1, 2>>, 0)
                            EXCEPT !.message_history = history]
    /\ call = NoCall
    /\ SystemIdle
    /\ timing = <<>>
    /\ loaded = <<>>
    /\ handlers = <<>>

NextHistory == CallNormalizeMessageSize

SpecHistory == InitHistory /\ [][NextHistory]_vars

\* C18: the history never holds more than 100 entries; every
\* normalize_message_size call, the first one and one that raises included,
\* appends the length of its input, and a full history loses its oldest entry.
C18_HistoryIsBounded ==
    /\ Len(obfuscator.message_history) <= 100
    /\ call.op = "normalize_message_size"
           => LET before == call.history_before
                  after  == obfuscator.message_history
              IN  IF Len(before) < 100
                  THEN after = Append(before, Len(call.arg))
                  ELSE after = Tail(before) \o <<Len(call.arg)>>

\* a call made on a full history evicted its oldest entry
C18_Witness ==
    /\ call.op = "normalize_message_size"
    /\ Len(call.history_before) = 100
    /\ Len(obfuscator.message_history) = 100
    /\ Head(obfuscator.message_history) = call.history_before[2]
    /\ Head(obfuscator.message_history) # Head(call.history_before)
    /\ obfuscator.message_history[100] = Len(call.arg)

\* C19: normalize_message_size never shrinks or truncates: what it returns
\* begins with the whole input and is at least as long, and a message whose
\* length is at least the target is returned unchanged.
C19_NormalizeNeverShrinks ==
    (call.op = "normalize_message_size" /\ call.raised = "none")
        => /\ StartsWith(call.result, call.arg)
           /\ Len(call.result) >= Len(call.arg)
           /\ (/\ call.target_size # NoTarget
               /\ Len(call.arg) * call.target_size[2] >= call.target_size[1])
                  => call.result = call.arg

\* a message longer than the target computed by the call was returned unchanged
C19_Witness ==
    /\ TargetComputed
    /\ Len(call.arg) * call.target_size[2] > call.target_size[1]
    /\ call.result = call.arg

-----------------------------------------------------------------------------
(* Claims about the timestamp of a paced send *)

\* the call suspended and its sleep is over
SleptAndReturned ==
    call.op = "wait_for_next_interval" /\ call.wait > 0 /\ ~call.sleeping

\* a send timestamp is recorded after an earlier one, on an instance with
\* fixed_interval > 0 and jitter bounds that are not negative
NextTimestampRecorded ==
    /\ timing.fixed_interval > 0
    /\ timing.min_jitter >= 0 /\ timing.max_jitter >= 0
    /\ timing.last_send_time # 0
    /\ timing.last_send_time' # timing.last_send_time

\* C27: after wait_for_next_interval has suspended, last_send_time is the clock
\* value read when the wait completed, not the one read at entry; and with
\* fixed_interval T > 0 and non-negative jitter any two consecutive recorded
\* timestamps of sequential sends are at least T apart.
C27_TimestampTakenAfterWait ==
    /\ [](SleptAndReturned
             => /\ timing.last_send_time >= call.time + call.wait
                /\ timing.last_send_time > call.time)
    /\ [][NextTimestampRecorded
             => timing.last_send_time' - timing.last_send_time
                    >= timing.fixed_interval]_vars

\* a sleep that ended later than asked for: the timestamp recorded is the
\* later clock value, more than T after the previous one
C27_Witness ==
    /\ SleptAndReturned
    /\ timing.fixed_interval > 0
    /\ timing.min_jitter >= 0 /\ timing.max_jitter >= 0
    /\ call.last_before # 0
    /\ timing.last_send_time > call.time + call.wait
    /\ timing.last_send_time - call.last_before > timing.fixed_interval

-----------------------------------------------------------------------------
(* Unit level: the receive paths of the server and of the client *)

\* the number of pieces a received payload is made of
MaxPieces == 3

\* the pieces of the received payloads: b"", b"hi", the two delimiters, the
\* decoy marker, b"||SIZE" and b"||PADDING"
ReceivedPieces ==
    { <<>>, <<104, 105>>, PADDING_DELIM, SIZE_DELIM, DUMMY_MARKER,
      SubSeq(SIZE_DELIM, 1, 6), SubSeq(PADDING_DELIM, 1, 9) }

RECURSIVE Concat(_)
\* b"".join(pieces)
Concat(pieces) ==
    IF pieces = <<>> THEN <<>> ELSE Head(pieces) \o Concat(Tail(pieces))

\* request.payload of render_post and response.payload of send_request
ReceivedPayloads == { Concat(pieces) : pieces \in [1..MaxPieces -> ReceivedPieces] }

InitReceive ==
    /\ now = 1
    /\ obfuscator = <<>>
    /\ call = NoCall
    /\ server = ServerMain(1, 1)
    /\ client = <<>> /\ network = <<>> /\ reply = <<>>
    /\ posted = <<>>
    /\ timing = <<>>
    /\ loaded = <<>>
    /\ handlers = <<>>

\* the server receives a POST with the payload
ReceivePost ==
    /\ call.op = "none"
    /\ \E payload \in ReceivedPayloads, draw \in RandomDraws,
          jitter \in Uniform(settings.MIN_JITTER, settings.MAX_JITTER) :
         \E padding \in SysUrandom(server.obfuscator.padding_min) :
           LET r == render_post(server, payload, now, draw, padding, jitter)
           IN  /\ server' = r.srv
               /\ posted' = r.srv.message_resource.messages
               /\ call' = [NoCall EXCEPT !.op = "render_post", !.arg = payload,
                                         !.time = now, !.flag = r.appended,
                                         !.result = r.payload]
    /\ UNCHANGED <<now, obfuscator, client, network, reply, timing, loaded, handlers>>

\* the client receives a response with the payload
ReceiveResponse ==
    /\ call.op = "none"
    /\ \E payload \in ReceivedPayloads :
         LET r == process_response(payload)
         IN  call' = [NoCall EXCEPT !.op = "process_response", !.arg = payload,
                                   !.time = now, !.none = r.none, !.result = r.bytes]
    /\ UNCHANGED <<now, obfuscator, server, client, network, posted, reply,
                   timing, loaded, handlers>>

NextReceive ==
    \/ ReceivePost
    \/ ReceiveResponse

SpecReceive == InitReceive /\ [][NextReceive]_vars

\* the receive order of the data flow: denormalize, unpad, then the decoy check
receive_denormalize_first(payload) ==
    remove_dummy_marker(remove_padding(denormalize_message_size(payload)))

\* C25: on both receive paths the message is denormalized, then unpadded, then
\* checked for the decoy marker, and only a non-decoy is delivered; for every
\* received byte sequence what render_post stores and what send_request
\* returns is the result of that order.
C25_ReceiveOrderEquivalent ==
    LET expected == receive_denormalize_first(call.arg)
    IN  /\ (call.op = "process_response" /\ call.arg # <<>>)
              => [none |-> call.none, bytes |-> call.result] = expected
        /\ call.op = "render_post"
              => /\ call.flag <=> ~expected.none
                 /\ call.flag => posted = <<FormattedMessage(call.time, expected.bytes)>>

-----------------------------------------------------------------------------
(* Claims about the two independent hops and the lifetime of the state *)

\* the client's destination port is the port the server listens on
Agreed == server.context.open /\ client.server_port = server.context.port

\* C21: the client and the server hop independently: a state where the
\* client's destination port differs from the port the server listens on is
\* reachable, and in such a state no step of the system is guaranteed to
\* restore agreement: only a hop check of the client or an iteration of the
\* server's hop task can end in agreement, and each of them can, with other
\* draws, end in disagreement.
C21_NoStepRestoresAgreement ==
    /\ [](~Agreed =>
            /\ ENABLED (SendRequestCalled /\ Agreed')
                  => ENABLED (SendRequestCalled /\ ~Agreed')
            /\ ENABLED (FrequencyHoppingTask /\ Agreed')
                  => ENABLED (FrequencyHoppingTask /\ ~Agreed'))
    /\ [][(~Agreed /\ Agreed') => (SendRequestCalled \/ FrequencyHoppingTask)]_vars

\* the server listens, the client sent to another port and its request failed
C21_Witness ==
    /\ server.context.open
    /\ client.server_port # server.context.port
    /\ client.pc = "request"
    /\ network.kind = "error"

\* C26: the obfuscation state is created once and lives for the session: no
\* step, a server port hop included, resets a recorded last_send_time or
\* empties a size history.
C26_StateLivesForTheSession ==
    [][/\ server.message_resource.timing_obfuscator.last_send_time # 0
          => server'.message_resource.timing_obfuscator.last_send_time
                 >= server.message_resource.timing_obfuscator.last_send_time
       /\ client.timing_obfuscator.last_send_time # 0
          => client'.timing_obfuscator.last_send_time
                 >= client.timing_obfuscator.last_send_time
       /\ Len(server'.obfuscator.message_history)
              >= Len(server.obfuscator.message_history)
       /\ Len(client'.obfuscator.message_history)
              >= Len(client.obfuscator.message_history)]_vars

-----------------------------------------------------------------------------
(* Claims about send_request *)

\* the step in which send_request is entered
SendRequestEntered == client.pc = "idle" /\ client'.pc = "delay"

\* the step in which a suspended send_request is cancelled
CancelledWhileSuspended ==
    /\ client.pc \in {"delay", "wait"}
    /\ client'.pc = "idle"
    /\ reply'.outcome = "cancelled"

\* C22: a send cancelled while suspended in the random delay or in the
\* fixed-interval wait is dropped: no request is handed to the transport for
\* it, before or by the cancellation, and nothing is in flight after it.
C22_CancelledSendIsDropped ==
    [][CancelledWhileSuspended
          => /\ client.requests = 0
             /\ reply'.requests = 0
             /\ reply'.at = client.pc
             /\ network.kind = "idle"
             /\ network' = network]_vars

\* a send cancelled in the fixed-interval wait, with nothing in flight
C22_Witness ==
    /\ reply.outcome = "cancelled"
    /\ reply.at = "wait"
    /\ reply.requests = 0
    /\ client.pc = "idle"
    /\ network.kind = "idle"

\* C23: a transport error raised while the client sends a request is surfaced
\* to the caller of send_request unchanged (the call raises it), and it is not
\* retried: at most one request is handed to the transport per call.
C23_TransportErrorSurfaced ==
    /\ client.requests <= 1
    /\ reply.requests <= 1
    /\ reply.outcome = "error" => reply.raised # "none" /\ ~reply.none

\* C24: whatever the client hands to the transport for a POST, a decoy that
\* replaced the request included, is what add_padding and then
\* normalize_message_size returned.
C24_RequestIsPaddedAndNormalized ==
    (network.kind = "request" /\ network.method = "POST")
        => network.payload = client.encoded

\* C28: the client makes the hop check at most once per PORT_CHECK_INTERVAL:
\* last_port_check moves by at least the interval, and a send_request entered
\* sooner after the last check calls get_next_frequency_hop not at all and
\* leaves the destination port, the offset and the hop state unchanged.
C28_HopCheckThrottled ==
    [][/\ client'.last_port_check # client.last_port_check
          => client'.last_port_check - client.last_port_check >= PORT_CHECK_INTERVAL
       /\ (SendRequestEntered /\ client'.checked)
          => now - client.last_port_check >= PORT_CHECK_INTERVAL
       /\ (SendRequestEntered /\ now - client.last_port_check < PORT_CHECK_INTERVAL)
          => /\ ~client'.checked
             /\ client'.server_port = client.server_port
             /\ client'.current_port_offset = client.current_port_offset
             /\ client'.last_port_check = client.last_port_check
             /\ client'.obfuscator = client.obfuscator]_vars

\* a second send_request entered within the interval of the check of the first
C28_Witness ==
    /\ client.pc = "delay"
    /\ client.sends >= 2
    /\ client.last_port_check # 0
    /\ now - client.last_port_check < PORT_CHECK_INTERVAL
    /\ ~client.checked

\* C29: every request handed to the transport, real or decoy, comes after
\* exactly one random delay of the same send_request, drawn between min_delay
\* and max_delay.
C29_OneRandomDelayBeforeRequest ==
    client.requests > 0
        => /\ client.delays = 1
           /\ client.obfuscator.min_delay <= client.delay
           /\ client.delay <= client.obfuscator.max_delay

\* a decoy in flight after a delay of max_delay
C29_Witness ==
    /\ network.kind = "request"
    /\ client.decoy
    /\ client.requests = 1
    /\ client.delays = 1
    /\ client.delay = client.obfuscator.max_delay
    /\ client.delay > 0

\* C30: a get_next_frequency_hop call (made by send_request) whose elapsed time
\* does not exceed the threshold drawn returns None and leaves last_hop_time
\* and current_port_offset unchanged, and the client keeps its destination
\* port and its port offset.
C30_NoHopChangesNothing ==
    [][(SendRequestEntered /\ client'.checked /\ ~client'.exceeded)
          => /\ client'.hop_none
             /\ client'.obfuscator.last_hop_time = client.obfuscator.last_hop_time
             /\ client'.obfuscator.current_port_offset
                    = client.obfuscator.current_port_offset
             /\ client'.server_port = client.server_port
             /\ client'.current_port_offset = client.current_port_offset]_vars

\* a hop check made after some time has elapsed, yet not above the threshold
C30_Witness ==
    /\ client.pc = "delay"
    /\ client.checked
    /\ ~client.exceeded
    /\ client.hop_none
    /\ now > client.obfuscator.last_hop_time
    /\ client.last_port_check = now

-----------------------------------------------------------------------------
(* Claims about failed calls and about the frame of the validation *)

\* C36: a normalize_message_size call that raises leaves the size history as
\* it was before the call: no length is recorded for the failed call.
C36_FailedCallRecordsNothing ==
    (call.op = "normalize_message_size" /\ call.raised # "none")
        => obfuscator.message_history = call.history_before

\* C37: the validation changes only values that violate the invariant: a
\* bound pair with min <= max (min = max included) and a probability within
\* [0, 1] are the same after Settings() as before.
C37_ValidationKeepsValidValues ==
    [][call'.op = "Settings"
          => /\ loaded.MIN_DELAY <= loaded.MAX_DELAY
                   => /\ loaded'.MIN_DELAY = loaded.MIN_DELAY
                      /\ loaded'.MAX_DELAY = loaded.MAX_DELAY
             /\ loaded.MIN_PADDING <= loaded.MAX_PADDING
                   => /\ loaded'.MIN_PADDING = loaded.MIN_PADDING
                      /\ loaded'.MAX_PADDING = loaded.MAX_PADDING
             /\ loaded.MIN_HOP_INTERVAL <= loaded.MAX_HOP_INTERVAL
                   => /\ loaded'.MIN_HOP_INTERVAL = loaded.MIN_HOP_INTERVAL
                      /\ loaded'.MAX_HOP_INTERVAL = loaded.MAX_HOP_INTERVAL
             /\ loaded.MIN_JITTER <= loaded.MAX_JITTER
                   => /\ loaded'.MIN_JITTER = loaded.MIN_JITTER
                      /\ loaded'.MAX_JITTER = loaded.MAX_JITTER
             /\ loaded.PADDING_PROBABILITY \in 0..100
                   => loaded'.PADDING_PROBABILITY = loaded.PADDING_PROBABILITY
             /\ loaded.DUMMY_MSG_PROBABILITY \in 0..100
                   => loaded'.DUMMY_MSG_PROBABILITY = loaded.DUMMY_MSG_PROBABILITY]_vars

-----------------------------------------------------------------------------
(* Two request handlers of one resource, sharing its TimingObfuscator *)

\* the handlers (render_get, render_post) running concurrently
Handlers == {1, 2}

\* a handler that has not reached wait_for_next_interval yet
HandlerStarted == [ pc |-> "running", wake |-> 0, sent |-> 0 ]

\* the resource's TimingObfuscator after a first reply was sent at time 1
InitHandlers ==
    /\ now = 1
    /\ obfuscator = <<>>
    /\ call = NoCall
    /\ SystemIdle
    /\ \E fixed_interval \in PaceIntervals \ {0} :
           timing = wait_for_next_interval(
                        TimingObfuscator(fixed_interval,
                                         <<settings.MIN_JITTER, settings.MAX_JITTER>>,
                                         settings.DUMMY_MSG_PROBABILITY),
                        1, 0).self
    /\ loaded = <<>>
    /\ handlers = [h \in Handlers |-> HandlerStarted]

\* time passes
HandlerTick ==
    /\ now < MaxTime
    /\ now' = now + 1
    /\ UNCHANGED <<obfuscator, call, server, client, network, posted, reply,
                   timing, loaded, handlers>>

\* handler h reaches "await self.timing_obfuscator.wait_for_next_interval()":
\* it sends at once, or computes its wait and is suspended in asyncio.sleep
HandlerWaits(h) ==
    /\ handlers[h].pc = "running"
    /\ \E jitter \in Uniform(timing.min_jitter, timing.max_jitter) :
         LET w == wait_for_next_interval(timing, now, jitter)
         IN  IF w.wait > 0
             THEN /\ handlers' = [handlers EXCEPT ![h].pc = "sleep",
                                                  ![h].wake = now + w.wait]
                  /\ timing' = timing
             ELSE /\ handlers' = [handlers EXCEPT ![h].pc = "sent", ![h].sent = now]
                  /\ timing' = w.self
    /\ UNCHANGED <<now, obfuscator, call, server, client, network, posted, reply,
                   loaded>>

\* the sleep of handler h is over: it takes the timestamp and returns its reply
HandlerWakes(h) ==
    /\ handlers[h].pc = "sleep"
    /\ now >= handlers[h].wake
    /\ timing' = wait_completed(timing, now)
    /\ handlers' = [handlers EXCEPT ![h].pc = "sent", ![h].sent = now]
    /\ UNCHANGED <<now, obfuscator, call, server, client, network, posted, reply,
                   loaded>>

NextHandlers ==
    \/ HandlerTick
    \/ \E h \in Handlers : HandlerWaits(h)
    \/ \E h \in Handlers : HandlerWakes(h)

SpecHandlers == InitHandlers /\ [][NextHandlers]_vars

\* C32: two handlers sharing one TimingObfuscator with fixed_interval T > 0
\* that run wait_for_next_interval concurrently complete their sends at least
\* T apart, as if the read of last_send_time, the wait and the write were one
\* atomic step.
C32_ConcurrentSendsAreSpaced ==
    \A g \in Handlers, h \in Handlers :
        (g # h /\ handlers[g].pc = "sent" /\ handlers[h].pc = "sent"
              /\ handlers[g].sent >= handlers[h].sent)
            => handlers[g].sent - handlers[h].sent >= timing.fixed_interval

-----------------------------------------------------------------------------
(* Claims about what a reported success and a hop leave behind *)

\* C31: whenever send_message reports success for a message, the text of that
\* message has been appended to the server's message list, also when the
\* decoy draw fired for the request.
C31_ReportedMessageIsStored ==
    (reply.method = "POST" /\ reply.outcome = "response"
        /\ send_message([none |-> reply.none, bytes |-> reply.result]))
        => \E i \in 1..Len(posted), payload \in Payloads :
               posted[i] = FormattedMessage(now, payload)

\* C35: between the iterations of the hop task the server has one listening
\* endpoint, bound to SERVER_PORT + the current_port_offset of its
\* obfuscator, also after a hop in which the new endpoint could not be created.
C35_OneEndpointOnTheCurrentOffset ==
    /\ server.context.open
    /\ server.context.port = SERVER_PORT + server.obfuscator.current_port_offset

-----------------------------------------------------------------------------
(* Claims about the client's port and the offsets *)

\* C34: at every moment the client's destination port is the server port it
\* was constructed with plus its current port offset.
C34_PortIsInitialPortPlusOffset ==
    client.server_port = client.initial_port + client.current_port_offset

\* C38: the current_port_offset of the client's obfuscator is always in 0..10
\* and equal to the client's own current_port_offset; it is 0 until the first
\* hop and never 0 again afterwards, and last_hop_time never decreases.
C38_OffsetAndHopTime ==
    /\ [](/\ client.obfuscator.current_port_offset \in 0..10
          /\ client.current_port_offset = client.obfuscator.current_port_offset)
    /\ [][/\ client'.obfuscator.last_hop_time >= client.obfuscator.last_hop_time
          /\ client.obfuscator.current_port_offset # 0
                => client'.obfuscator.current_port_offset # 0
          /\ client'.obfuscator.current_port_offset
                  # client.obfuscator.current_port_offset
                => /\ client'.checked /\ ~client'.hop_none
                   /\ client'.obfuscator.last_hop_time = now
                   /\ client'.obfuscator.last_hop_time
                          > client.obfuscator.last_hop_time]_vars

\* after a hop, a later check that does not hop: the offset is still not 0
C38_Witness ==
    /\ client.pc = "delay"
    /\ client.sends >= 2
    /\ client.checked /\ client.hop_none
    /\ client.obfuscator.current_port_offset # 0
    /\ client.current_port_offset = client.obfuscator.current_port_offset
    /\ client.obfuscator.last_hop_time < now

-----------------------------------------------------------------------------
(* Unit level: the send pipeline followed by the receive pipeline *)

\* the payloads sent through the two pipelines by one instance
MaxTrips == 2

\* the sender's "Add padding and normalize size"
send_pipeline(self, message, draw, padding) ==
    normalize_message_size(self, add_padding(self, message, draw, padding))

\* the receiver's "Remove any obfuscation"
receive_pipeline(payload) ==
    remove_dummy_marker(denormalize_message_size(remove_padding(payload)))

\* the payloads that hold neither delimiter and do not begin with the marker
CleanPayloads ==
    { m \in Messages : /\ ~Contains(m, PADDING_DELIM)
                       /\ ~Contains(m, SIZE_DELIM)
                       /\ ~is_dummy_message(m) }

InitRoundTrip ==
    /\ now = 0
    /\ \E p \in PaddingProbabilities :
           obfuscator = TrafficObfuscator(1, 2, p, <<1, 2>>, <<1, 2>>, 0)
    /\ call = NoCall
    /\ SystemIdle
    /\ timing = <<>>
    /\ loaded = <<>>
    /\ handlers = <<>>

\* a payload goes through the send pipeline of the instance and, unless that
\* raised, through the receive pipeline
SendAndReceive ==
    /\ call.count < MaxTrips
    /\ \E message \in CleanPayloads, draw \in RandomDraws :
         \E padding_size \in obfuscator.padding_min..obfuscator.padding_max :
           \E padding \in Urandom(padding_size) :
             LET sent     == send_pipeline(obfuscator, message, draw, padding)
                 received == IF sent.raised = "none"
                             THEN receive_pipeline(sent.result)
                             ELSE [none |-> TRUE, bytes |-> <<>>]
             IN  /\ obfuscator' = sent.self
                 /\ call' = [NoCall EXCEPT !.op = "round_trip",
                                           !.count = call.count + 1,
                                           !.arg = message,
                                           !.raised = sent.raised,
                                           !.none = received.none,
                                           !.result = received.bytes,
                                           !.history_before = obfuscator.message_history]
    /\ UNCHANGED <<now, server, client, network, posted, reply, timing, loaded,
                   handlers>>

NextRoundTrip == SendAndReceive

SpecRoundTrip == InitRoundTrip /\ [][NextRoundTrip]_vars

\* C33: for every payload that holds neither delimiter and does not begin with
\* the decoy marker, and for every padding decision, padding block and size
\* history, the receive pipeline applied to the output of the send pipeline
\* yields exactly the payload.
C33_PipelineRoundTrip ==
    call.op = "round_trip"
        => /\ call.raised = "none"
           /\ ~call.none
           /\ call.result = call.arg

====
